---- MODULE Spec2Model ----
(***************************************************************************)
(* The three Fibonacci circuits of halo2_example (example1.rs: 3 advice    *)
(* columns, one region per row; example2.rs: 1 advice column, one region;  *)
(* example3.rs: 2 advice columns, one region) together with the            *)
(* arithmetization engine they drive: region assignment, selectors, copy   *)
(* constraints, instance binding and the satisfiability check.             *)
(*                                                                         *)
(* Every circuit is synthesized twice in a behaviour: first the            *)
(* without_witnesses() circuit (all values Unknown), whose layout is kept  *)
(* in `shape`, then the circuit with its witness and public inputs, which  *)
(* is then verified.                                                       *)
(***************************************************************************)
EXTENDS Integers, Sequences, FiniteSets, TLC

\* ------------------------------------------------------------------ bounds
P == 5              \* modulus of the bounded field standing in for pasta::Fp
MaxNrows == 10      \* largest nrows handed to FiboChip::assign (examples 2, 3)
MaxTamper == 2      \* advice cells an adversarial prover may overwrite

\* --------------------------------------------------------------- constants
K == 4              \* circuit size parameter k: the table has 2^k rows
LoopFrom == 3       \* example1: for _i in 3..10
LoopTo == 10
Nrows2 == 10        \* example2: chip.assign(.., 10)
Nrows3 == 5         \* example3: chip.assign(.., 5)
InstanceCol == 3    \* column id of the instance column (advice columns: 0..2)
Unknown == 0 - 1    \* Value::unknown()

NumRows == 2 ^ K
F == 0 .. (P - 1)
Fp(n) == n % P

\* the single element of a singleton set
Only(S) == CHOOSE x \in S : TRUE

\* Value<F> + Value<F>: unknown if either operand is unknown
VAdd(u, v) == IF u = Unknown \/ v = Unknown THEN Unknown ELSE (u + v) % P

NoCell == [cell |-> <<0 - 1, 0 - 1>>, value |-> Unknown]

\* ------------------------------------------------------------------- gates
\* A polynomial is a sequence of terms <<column, rotation, coefficient>>,
\* all multiplied by the selector; each must be zero where the selector is 1.
Gates1 == << [name |-> "add",
              polys |-> << << <<0, 0, 1>>, <<1, 0, 1>>, <<2, 0, 0 - 1>> >> >>] >>

Gates2 == << [name |-> "add",
              polys |-> << << <<0, 0, 1>>, <<0, 1, 1>>, <<0, 2, 0 - 1>> >> >>] >>

Gates3 == << [name |-> "add1",
              polys |-> << << <<0, 0, 1>>, <<1, 0, 1>>, <<0, 1, 0 - 1>> >>,
                           << <<1, 0, 1>>, <<0, 1, 1>>, <<1, 1, 0 - 1>> >> >>] >>

Gates(e) == CASE e = 1 -> Gates1 [] e = 2 -> Gates2 [] OTHER -> Gates3

\* ---------------------------------------------------------------- layouter
\* table: assigned advice cells -> value; selectors: enabled absolute rows;
\* copies: the copy constraints in the order they were recorded;
\* cells: the cells named by copy constraints, in the order the constraints
\* first named them (a cell's id is its position); rep: the union-find over
\* the cell ids (rep[k] is the id of the representative of cell k's class);
\* next_row: first row of the next region.
EmptyLayouter ==
    [table |-> << >>, selectors |-> {}, copies |-> << >>, rep |-> << >>,
     cells |-> << >>, next_row |-> 0]

EnableSelector(L, row) == [L EXCEPT !.selectors = @ \cup {row}]

AssignAdvice(L, col, row, v) ==
    [L EXCEPT !.table = (<<col, row>> :> v) @@ @]

Named(L, c) == \E k \in DOMAIN L.cells : L.cells[k] = c

Id(L, c) == CHOOSE k \in DOMAIN L.cells : L.cells[k] = c

\* a cell enters the union-find as a class of its own
Join(L, c) ==
    IF Named(L, c) THEN L
    ELSE [L EXCEPT !.cells = Append(@, c), !.rep = Append(@, Len(@) + 1)]

\* union(k1, k2): every cell of k2's class joins k1's class
Union(rep, k1, k2) ==
    [k \in DOMAIN rep |-> IF rep[k] = rep[k2] THEN rep[k1] ELSE rep[k]]

Merge(L, c1, c2) ==
    [L EXCEPT !.copies = Append(@, <<c1, c2>>),
              !.rep = Union(@, Id(L, c1), Id(L, c2))]

ConstrainEqual(L, c1, c2) == Merge(Join(Join(L, c1), c2), c1, c2)

\* AssignedCell::copy_advice: write the source's value, constrain both equal
CopyAdvice(L, src, col, row) ==
    ConstrainEqual(AssignAdvice(L, col, row, src.value), <<col, row>>, src.cell)

InstanceValue(inst, irow) ==
    IF irow + 1 \in DOMAIN inst THEN inst[irow + 1] ELSE Unknown

AssignAdviceFromInstance(L, inst, irow, col, row) ==
    ConstrainEqual(AssignAdvice(L, col, row, InstanceValue(inst, irow)),
                   <<col, row>>, <<InstanceCol, irow>>)

ConstrainInstance(L, cell, irow) ==
    ConstrainEqual(L, cell, <<InstanceCol, irow>>)

Max(S) == CHOOSE m \in S : \A r \in S : r <= m

\* rows the open region has touched, counted from its first row
RegionRows(L) ==
    LET top == {r \in {c[2] : c \in DOMAIN L.table} \cup L.selectors :
                   r >= L.next_row}
    IN  IF top = {} THEN 0 ELSE Max(top) - L.next_row + 1

CloseRegion(L) == [L EXCEPT !.next_row = @ + RegionRows(L)]

ACell(L, col, row) == [cell |-> <<col, row>>, value |-> L.table[<<col, row>>]]

Layout(L) ==
    [cells |-> DOMAIN L.table, selectors |-> L.selectors, copies |-> L.copies]

\* ------------------------------------------------------------------- state
VARIABLES
    ex,            \* which example circuit runs: 1, 2 or 3
    nrows,         \* the nrows argument of FiboChip::assign (examples 2, 3)
    pass,          \* "shape" (without_witnesses) or "witness" (MockProver::run)
    pc,            \* position inside synthesize / main
    i,             \* loop variable (_i in example1, row in examples 2, 3)
    circuit,       \* MyCircuit { a, b } of example1
    public_input,  \* the instance column handed to MockProver::run
    layouter,      \* table, selectors, copy constraints, next free row
    prev_a, prev_b, prev_c,   \* example1: cells handed from row to row
    a_cell, b_cell,           \* examples 2, 3: the two running cells
    shape,         \* layout produced by the without_witnesses pass
    tampered,      \* advice cells the prover overwrote
    result         \* the violation list of the check (<< >> is Ok(()))

vars == <<ex, nrows, pass, pc, i, circuit, public_input, layouter,
          prev_a, prev_b, prev_c, a_cell, b_cell, shape, tampered, result>>

NoShape == [cells |-> {}, selectors |-> {}, copies |-> << >>]

StartPc(e) == IF e = 1 THEN "first_row" ELSE "assign"

\* MyCircuit::without_witnesses: Self::default()
WithoutWitnesses == [a |-> Unknown, b |-> Unknown]

InitWith(examples, sizes) ==
    /\ ex \in examples
    /\ nrows \in sizes
    /\ (ex = 1) => (nrows = 0)
    /\ (ex # 1) => (nrows >= 1)
    /\ pass = "shape"
    /\ pc = StartPc(ex)
    /\ i = 0
    /\ circuit = WithoutWitnesses
    /\ public_input = << >>
    /\ layouter = EmptyLayouter
    /\ prev_a = NoCell /\ prev_b = NoCell /\ prev_c = NoCell
    /\ a_cell = NoCell /\ b_cell = NoCell
    /\ shape = NoShape
    /\ tampered = {}
    /\ result = << >>

Init == InitWith({1, 2, 3}, 0 .. MaxNrows)

\* --------------------------------------------------------------- example1
\* c of the first row: a + b
FirstRowC(a, b) == VAdd(a, b)

\* faulty variant: the sum takes prev_b twice
NextRowC_TwiceB(pb, pc_) == VAdd(pb.value, pb.value)

\* c of a later row: prev_b + prev_c
NextRowC(pb, pc_) == VAdd(pb.value, pc_.value)

\* FiboChip::assign_first_row, one region of one row
assign_first_row(L, a, b) ==
    LET base == L.next_row
        L1 == EnableSelector(L, base)
        L2 == AssignAdvice(L1, 0, base, a)
        L3 == AssignAdvice(L2, 1, base, b)
        L4 == AssignAdvice(L3, 2, base, FirstRowC(a, b))
    IN  [layouter |-> CloseRegion(L4),
         a |-> ACell(L4, 0, base), b |-> ACell(L4, 1, base), c |-> ACell(L4, 2, base)]

\* faulty variant: the copy constraints are recorded only for known values
assign_row_KnownOnly(L, pb, pc_) ==
    LET base == L.next_row
        L1 == EnableSelector(L, base)
        L2 == IF pb.value = Unknown THEN AssignAdvice(L1, 0, base, pb.value)
              ELSE CopyAdvice(L1, pb, 0, base)
        L3 == IF pc_.value = Unknown THEN AssignAdvice(L2, 1, base, pc_.value)
              ELSE CopyAdvice(L2, pc_, 1, base)
        L4 == AssignAdvice(L3, 2, base, NextRowC(pb, pc_))
    IN  [layouter |-> CloseRegion(L4), c |-> ACell(L4, 2, base)]

\* faulty variant: b is written with assign_advice, without a copy constraint
assign_row_NoCopyB(L, pb, pc_) ==
    LET base == L.next_row
        L1 == EnableSelector(L, base)
        L2 == CopyAdvice(L1, pb, 0, base)
        L3 == AssignAdvice(L2, 1, base, pc_.value)
        L4 == AssignAdvice(L3, 2, base, NextRowC(pb, pc_))
    IN  [layouter |-> CloseRegion(L4), c |-> ACell(L4, 2, base)]

\* FiboChip::assign_row, one region of one row
assign_row(L, pb, pc_) ==
    LET base == L.next_row
        L1 == EnableSelector(L, base)
        L2 == CopyAdvice(L1, pb, 0, base)
        L3 == CopyAdvice(L2, pc_, 1, base)
        L4 == AssignAdvice(L3, 2, base, NextRowC(pb, pc_))
    IN  [layouter |-> CloseRegion(L4), c |-> ACell(L4, 2, base)]

\* faulty variant: the row argument is ignored, every cell is bound to row 0
expose_public_Row0(L, cell, row) == ConstrainInstance(L, cell.cell, 0)

\* FiboChip::expose_public
expose_public(L, cell, row) == ConstrainInstance(L, cell.cell, row)

\* faulty variant: the output is exposed at instance row 1
OutRow1_One == 2 - 1

\* instance row the last c cell is exposed at
OutRow1 == 2

AssignFirstRow ==
    /\ ex = 1 /\ pc = "first_row"
    /\ LET r == assign_first_row(layouter, circuit.a, circuit.b)
       IN  /\ layouter' = r.layouter
           /\ prev_a' = r.a
           /\ prev_b' = r.b
           /\ prev_c' = r.c
    /\ pc' = "expose_a"
    /\ UNCHANGED <<ex, nrows, pass, i, circuit, public_input, a_cell, b_cell,
                   shape, tampered, result>>

\* chip.expose_public(.. "private a", &prev_a, 0)
ExposePrivateA ==
    /\ ex = 1 /\ pc = "expose_a"
    /\ layouter' = expose_public(layouter, prev_a, 0)
    /\ pc' = "expose_b"
    /\ UNCHANGED <<ex, nrows, pass, i, circuit, public_input, prev_a, prev_b,
                   prev_c, a_cell, b_cell, shape, tampered, result>>

\* chip.expose_public(.. "private b", &prev_b, 1), then the loop starts
ExposePrivateB ==
    /\ ex = 1 /\ pc = "expose_b"
    /\ layouter' = expose_public(layouter, prev_b, 1)
    /\ pc' = "next_row"
    /\ i' = LoopFrom
    /\ UNCHANGED <<ex, nrows, pass, circuit, public_input, prev_a, prev_b,
                   prev_c, a_cell, b_cell, shape, tampered, result>>

\* one iteration of for _i in 3..10
AssignRow ==
    /\ ex = 1 /\ pc = "next_row" /\ i < LoopTo
    /\ LET r == assign_row(layouter, prev_b, prev_c)
       IN  /\ layouter' = r.layouter
           /\ prev_b' = prev_c
           /\ prev_c' = r.c
    /\ i' = i + 1
    /\ UNCHANGED <<ex, nrows, pass, pc, circuit, public_input, prev_a,
                   a_cell, b_cell, shape, tampered, result>>

\* the loop is over: chip.expose_public(.. "out", &prev_c, 2)
ExposeOut ==
    /\ ex = 1 /\ pc = "next_row" /\ i >= LoopTo
    /\ layouter' = expose_public(layouter, prev_c, OutRow1)
    /\ pc' = "synthesized"
    /\ UNCHANGED <<ex, nrows, pass, i, circuit, public_input, prev_a, prev_b,
                   prev_c, a_cell, b_cell, shape, tampered, result>>

\* MyCircuit::synthesize as one function of the circuit: the layouter it
\* leaves behind
RECURSIVE rows1(_, _, _, _)
rows1(L, pb, pc_, k) ==
    IF k >= LoopTo THEN expose_public(L, pc_, OutRow1)
    ELSE Only({rows1(r.layouter, pc_, r.c, k + 1) : r \in {assign_row(L, pb, pc_)}})

synthesize1(w) ==
    Only({rows1(expose_public(expose_public(r.layouter, r.a, 0), r.b, 1),
                r.b, r.c, LoopFrom) :
             r \in {assign_first_row(EmptyLayouter, w.a, w.b)}})

\* --------------------------------------------------------------- example2
\* if row < nrows - 2 { selector.enable(row) }
SelectorOn2(row, n) == row < n - 2

\* faulty variant: the sum takes b_cell twice
NextC2_TwiceB(a, b) == VAdd(b.value, b.value)

\* the next cell: a_cell.value() + b_cell.value()
NextC2(a, b) == VAdd(a.value, b.value)

\* lines 70-86: selector at row 0, rows 0 and 1 loaded from instance rows 0, 1
Assign2Begin ==
    /\ ex = 2 /\ pc = "assign"
    /\ LET base == layouter.next_row
           L1 == EnableSelector(layouter, base)
           L2 == AssignAdviceFromInstance(L1, public_input, 0, 0, base)
           L3 == AssignAdviceFromInstance(L2, public_input, 1, 0, base + 1)
       IN  /\ layouter' = L3
           /\ a_cell' = ACell(L3, 0, base)
           /\ b_cell' = ACell(L3, 0, base + 1)
    /\ pc' = "loop"
    /\ i' = 2
    /\ UNCHANGED <<ex, nrows, pass, circuit, public_input, prev_a, prev_b,
                   prev_c, shape, tampered, result>>

\* one iteration of for row in 2..nrows
Assign2Row ==
    /\ ex = 2 /\ pc = "loop" /\ i < nrows
    /\ LET base == layouter.next_row
           L1 == IF SelectorOn2(i, nrows)
                 THEN EnableSelector(layouter, base + i) ELSE layouter
           L2 == AssignAdvice(L1, 0, base + i, NextC2(a_cell, b_cell))
       IN  /\ layouter' = L2
           /\ a_cell' = b_cell
           /\ b_cell' = ACell(L2, 0, base + i)
    /\ i' = i + 1
    /\ UNCHANGED <<ex, nrows, pass, pc, circuit, public_input, prev_a, prev_b,
                   prev_c, shape, tampered, result>>

\* the loop is over: Ok(b_cell), the region is placed
Assign2Return ==
    /\ ex = 2 /\ pc = "loop" /\ i >= nrows
    /\ layouter' = CloseRegion(layouter)
    /\ pc' = "expose_out"
    /\ UNCHANGED <<ex, nrows, pass, i, circuit, public_input, prev_a, prev_b,
                   prev_c, a_cell, b_cell, shape, tampered, result>>

\* chip.expose_public(.. "out", output_cell, 2)
ExposeOut2 ==
    /\ ex = 2 /\ pc = "expose_out"
    /\ layouter' = ConstrainInstance(layouter, b_cell.cell, 2)
    /\ pc' = "synthesized"
    /\ UNCHANGED <<ex, nrows, pass, i, circuit, public_input, prev_a, prev_b,
                   prev_c, a_cell, b_cell, shape, tampered, result>>

\* --------------------------------------------------------------- example3
\* if row < nrows-1 { selector.enable(row) }
SelectorOn3(row, n) == row < n - 1

\* instance rows the two seed cells (col_a, 0) and (col_b, 0) are loaded from
SeedRowA3 == 0
SeedRowB3 == 0

\* lines 71-103: rows 0 and 1 of the region, selector enabled at both
Assign3Begin ==
    /\ ex = 3 /\ pc = "assign"
    /\ LET base == layouter.next_row
           L1 == EnableSelector(layouter, base)
           L2 == AssignAdviceFromInstance(L1, public_input, SeedRowA3, 0, base)
           a0 == ACell(L2, 0, base)
           L3 == AssignAdviceFromInstance(L2, public_input, SeedRowB3, 1, base)
           b0 == ACell(L3, 1, base)
           L4 == EnableSelector(L3, base + 1)
           L5 == AssignAdvice(L4, 0, base + 1, VAdd(a0.value, b0.value))
           a1 == ACell(L5, 0, base + 1)
           L6 == AssignAdvice(L5, 1, base + 1, VAdd(a1.value, b0.value))
       IN  /\ layouter' = L6
           /\ a_cell' = a1
           /\ b_cell' = ACell(L6, 1, base + 1)
    /\ pc' = "loop"
    /\ i' = 2
    /\ UNCHANGED <<ex, nrows, pass, circuit, public_input, prev_a, prev_b,
                   prev_c, shape, tampered, result>>

\* one iteration of for row in 2..nrows
Assign3Row ==
    /\ ex = 3 /\ pc = "loop" /\ i < nrows
    /\ LET base == layouter.next_row
           L1 == IF SelectorOn3(i, nrows)
                 THEN EnableSelector(layouter, base + i) ELSE layouter
           L2 == AssignAdvice(L1, 0, base + i, VAdd(a_cell.value, b_cell.value))
           a2 == ACell(L2, 0, base + i)
           L3 == AssignAdvice(L2, 1, base + i, VAdd(a2.value, b_cell.value))
       IN  /\ layouter' = L3
           /\ a_cell' = a2
           /\ b_cell' = ACell(L3, 1, base + i)
    /\ i' = i + 1
    /\ UNCHANGED <<ex, nrows, pass, pc, circuit, public_input, prev_a, prev_b,
                   prev_c, shape, tampered, result>>

\* the loop is over: Ok(b_cell), the region is placed
Assign3Return ==
    /\ ex = 3 /\ pc = "loop" /\ i >= nrows
    /\ layouter' = CloseRegion(layouter)
    /\ pc' = "expose_out"
    /\ UNCHANGED <<ex, nrows, pass, i, circuit, public_input, prev_a, prev_b,
                   prev_c, a_cell, b_cell, shape, tampered, result>>

\* chip.expose_public(.. "out", out_cell, 2)
ExposeOut3 ==
    /\ ex = 3 /\ pc = "expose_out"
    /\ layouter' = ConstrainInstance(layouter, b_cell.cell, 2)
    /\ pc' = "synthesized"
    /\ UNCHANGED <<ex, nrows, pass, i, circuit, public_input, prev_a, prev_b,
                   prev_c, a_cell, b_cell, shape, tampered, result>>

\* ------------------------------------------------------------ the checker
\* value of a cell at check time: instance cells carry the public inputs,
\* advice cells the table, anything never assigned is Unknown
CellValue(T, inst, c) ==
    IF c[1] = InstanceCol THEN InstanceValue(inst, c[2])
    ELSE IF c \in DOMAIN T THEN T[c] ELSE Unknown

\* every rotation of the polynomial stays inside the table at row r
InRange(poly, r) ==
    \A t \in 1 .. Len(poly) : r + poly[t][2] \in 0 .. (NumRows - 1)

AllKnown(T, poly, r) ==
    \A t \in 1 .. Len(poly) :
        CellValue(T, << >>, <<poly[t][1], r + poly[t][2]>>) # Unknown

RECURSIVE PolySum(_, _, _, _)
PolySum(T, poly, r, n) ==
    IF n = 0 THEN 0
    ELSE PolySum(T, poly, r, n - 1)
         + ((poly[n][3] + P) % P) * T[<<poly[n][1], r + poly[n][2]>>]

\* the gate is active at row r: its selector is on and no rotation leaves
\* the table
GateActive(sels, g, r) ==
    /\ r \in sels
    /\ \A j \in 1 .. Len(g.polys) : InRange(g.polys[j], r)

\* one of the gate's polynomials has only Known operands and does not
\* evaluate to zero
GateFails(T, g, r) ==
    \E j \in 1 .. Len(g.polys) :
        /\ AllKnown(T, g.polys[j], r)
        /\ PolySum(T, g.polys[j], r, Len(g.polys[j])) % P # 0

\* pairs of naturals in lexicographic order
PairLess(p, q) == p[1] < q[1] \/ (p[1] = q[1] /\ p[2] < q[2])

\* the pairs of S as a sequence in lexicographic order
Ordered(S) ==
    [k \in 1 .. Cardinality(S) |->
        CHOOSE p \in S : Cardinality({q \in S : PairLess(q, p)}) = k - 1]

\* the <<row, gate>> pairs to evaluate, rows outermost, gates inside
ActiveRows(sels, gates) ==
    Ordered({rg \in (0 .. (NumRows - 1)) \X (1 .. Len(gates)) :
                GateActive(sels, gates[rg[2]], rg[1])})

GateList(gates, bad) ==
    [k \in DOMAIN bad |->
        [kind |-> "UnsatisfiedGate", gate |-> gates[bad[k][2]].name,
         row |-> bad[k][1]]]

\* row-major scan of the active rows
GateScan(T, gates, active) ==
    LET Bad(rg) == GateFails(T, gates[rg[2]], rg[1])
    IN  GateList(gates, SelectSeq(active, Bad))

\* find(c1) = find(c2)
SameClass(L, c1, c2) ==
    Named(L, c1) /\ Named(L, c2) /\ L.rep[Id(L, c1)] = L.rep[Id(L, c2)]

\* the pairs of distinct cell ids that share a class, in the order the copy
\* constraints first named the two cells
ClassPairs(rep) ==
    Ordered({xz \in (DOMAIN rep) \X (DOMAIN rep) :
                xz[1] < xz[2] /\ rep[xz[1]] = rep[xz[2]]})

\* cells x and z hold different Known values
CopyMismatch(vals, x, z) ==
    vals[x] # Unknown /\ vals[z] # Unknown /\ vals[x] # vals[z]

CopyList(cells, vals, bad) ==
    [k \in DOMAIN bad |->
        [kind |-> "CopyConstraintViolated",
         a |-> cells[bad[k][1]], b |-> cells[bad[k][2]],
         va |-> vals[bad[k][1]], vb |-> vals[bad[k][2]]]]

CopyPairs(vals, pairs) ==
    LET Bad(xz) == CopyMismatch(vals, xz[1], xz[2])
    IN  SelectSeq(pairs, Bad)

\* one entry for every two cells of a class that hold different Known values
CopyScan(T, inst, cells, pairs) ==
    Only({CopyList(cells, vals, CopyPairs(vals, pairs)) :
            vals \in {[k \in DOMAIN cells |-> CellValue(T, inst, cells[k])]}})

\* what the check keeps of the frozen constraint system and copy-constraint
\* set: the gates, the rows they are active in, the classes
Frozen(e, L) ==
    [gates |-> Gates(e), active |-> ActiveRows(L.selectors, Gates(e)),
     cells |-> L.cells, pairs |-> ClassPairs(L.rep)]

\* all gate violations in row-major order, then all copy violations
CheckTable(fz, T, inst) ==
    GateScan(T, fz.gates, fz.active) \o CopyScan(T, inst, fz.cells, fz.pairs)

Check(e, L, inst) ==
    Only({CheckTable(fz, L.table, inst) : fz \in {Frozen(e, L)}})

\* ------------------------------------------------------ running the prover
ResetCells ==
    /\ prev_a' = NoCell /\ prev_b' = NoCell /\ prev_c' = NoCell
    /\ a_cell' = NoCell /\ b_cell' = NoCell

\* the shape pass is over
ShapeDone == pc = "synthesized" /\ pass = "shape"

\* synthesis restarts on an empty table with the witness and the public
\* inputs of the run; the layout of the shape pass is kept
BeginRun(w, inst) ==
    /\ shape' = Layout(layouter)
    /\ circuit' = w
    /\ public_input' = inst
    /\ layouter' = EmptyLayouter
    /\ pass' = "witness"
    /\ pc' = StartPc(ex)
    /\ i' = 0
    /\ ResetCells
    /\ UNCHANGED <<ex, nrows, tampered, result>>

\* example1 main: MockProver::run(k, &circuit, vec![public_input])
Run1(seeds, pubs) ==
    /\ ex = 1 /\ ShapeDone
    /\ \E a \in seeds, b \in seeds, inst \in pubs :
          BeginRun([a |-> a, b |-> b], inst)

\* test_example2: the circuit carries no witness of its own
Run2 ==
    /\ ex = 2 /\ ShapeDone
    /\ \E inst \in [1 .. 3 -> F] : BeginRun(WithoutWitnesses, inst)

\* test_example3
Run3 ==
    /\ ex = 3 /\ ShapeDone
    /\ \E inst \in [1 .. 3 -> F] : BeginRun(WithoutWitnesses, inst)

\* row-major order of the advice cells
CellLess(c1, c2) == c1[2] < c2[2] \/ (c1[2] = c2[2] /\ c1[1] < c2[1])

\* the tables that differ from T in at most k of the cells after `last`
RECURSIVE Overwritten(_, _, _)
Overwritten(T, last, k) ==
    IF k = 0 THEN {T}
    ELSE {T} \cup UNION {UNION {Overwritten([T EXCEPT ![c] = v], c, k - 1) :
                                   v \in F \ {T[c]}} :
                            c \in {d \in DOMAIN T : CellLess(last, d)}}

\* prover.verify() / assert_satisfied()
Verify ==
    /\ pc = "synthesized" /\ pass = "witness"
    /\ result' = Check(ex, layouter, public_input)
    /\ pc' = "verified"
    /\ UNCHANGED <<ex, nrows, pass, i, circuit, public_input, layouter, prev_a,
                   prev_b, prev_c, a_cell, b_cell, shape, tampered>>

\* an adversarial prover: the table handed to the check has the layout
\* synthesize produced, but up to MaxTamper of its advice cells hold values
\* of the prover's choosing
VerifyTampered ==
    /\ pc = "synthesized" /\ pass = "witness"
    /\ \E fz \in {Frozen(ex, layouter)} :
          \E T \in Overwritten(layouter.table, <<0 - 1, 0 - 1>>, MaxTamper) :
             /\ T # layouter.table
             /\ layouter' = [layouter EXCEPT !.table = T]
             /\ tampered' = {c \in DOMAIN T : T[c] # layouter.table[c]}
             /\ result' = CheckTable(fz, T, public_input)
    /\ pc' = "verified"
    /\ UNCHANGED <<ex, nrows, pass, i, circuit, public_input, prev_a, prev_b,
                   prev_c, a_cell, b_cell, shape>>

\* ---------------------------------------------------------- specifications
Synthesize1 ==
    \/ AssignFirstRow
    \/ ExposePrivateA
    \/ ExposePrivateB
    \/ AssignRow
    \/ ExposeOut

Synthesize2 ==
    \/ Assign2Begin
    \/ Assign2Row
    \/ Assign2Return
    \/ ExposeOut2

Synthesize3 ==
    \/ Assign3Begin
    \/ Assign3Row
    \/ Assign3Return
    \/ ExposeOut3

Next ==
    \/ Synthesize1
    \/ Synthesize2
    \/ Synthesize3
    \/ Run1(F, [1 .. 3 -> F])
    \/ Run2
    \/ Run3
    \/ Verify

Spec == Init /\ [][Next]_vars

\* example1 as main runs it (the circuit a = b = 1) against every public
\* input vector; the prover may hand the check a tampered table
InitT == InitWith({1}, {0})

NextT ==
    \/ Synthesize1
    \/ Run1({Fp(1)}, [1 .. 3 -> F])
    \/ Verify
    \/ VerifyTampered

SpecT == InitT /\ [][NextT]_vars

\* ------------------------------------------------------------------ claims
\* term n of the recurrence t0 = x, t1 = y, t(n) = t(n-1) + t(n-2) in the field
RECURSIVE FibTerm(_, _, _)
FibTerm(x, y, n) == IF n = 0 THEN x ELSE FibTerm(y, (x + y) % P, n - 1)

T9(x, y) == FibTerm(x, y, 9)

Verified(e) == ex = e /\ pass = "witness" /\ pc = "verified"

IsGate(v) == v.kind = "UnsatisfiedGate"
IsCopy(v) == v.kind = "CopyConstraintViolated"

\* a copy violation one of whose two cells is instance row irow
NamesInstance(v, irow) ==
    IsCopy(v) /\ (v.a = <<InstanceCol, irow>> \/ v.b = <<InstanceCol, irow>>)

\* example1: row of the last region, and the cell each public input is bound to
LastRow1 == LoopTo - LoopFrom
BoundCell1(k) ==
    CASE k = 1 -> <<0, 0>> [] k = 2 -> <<1, 0>> [] OTHER -> <<2, LastRow1>>

\* example1: the public inputs that match the witness a, b
Honest1 == <<circuit.a, circuit.b, T9(circuit.a, circuit.b)>>

\* C1: example1 with witness seeds (a, b) and public inputs [a, b, t9] is
\* accepted: the check returns no violation, and the three instance rows are
\* bound by copy constraints.
C1_HonestAccepted ==
    (Verified(1) /\ public_input = Honest1) =>
        /\ result = << >>
        /\ \A irow \in 0 .. 2 : Named(layouter, <<InstanceCol, irow>>)

C1_Witness ==
    /\ Verified(1)
    /\ circuit = [a |-> Fp(1), b |-> Fp(1)]
    /\ public_input = <<Fp(1), Fp(1), Fp(55)>>
    /\ result = << >>

\* C2: example1, witness fixed: public inputs that differ from [a, b, t9] in
\* exactly one row i give a non-empty list without UnsatisfiedGate whose
\* entries all name instance row i and no other instance row; for the output
\* row the list has exactly one entry.
C2_OneInputChanged ==
    Verified(1) =>
        LET changed == {k \in 1 .. 3 : public_input[k] # Honest1[k]}
        IN  Cardinality(changed) = 1 =>
               /\ result # << >>
               /\ \A j \in DOMAIN result :
                     /\ ~IsGate(result[j])
                     /\ \A k \in 1 .. 3 :
                           NamesInstance(result[j], k - 1) <=> (k \in changed)
               /\ (3 \in changed) => (Len(result) = 1)

C2_Witness ==
    /\ Verified(1)
    /\ circuit = [a |-> Fp(1), b |-> Fp(1)]
    /\ public_input = <<Fp(1), Fp(1), Fp(56)>>
    /\ Len(result) = 1
    /\ NamesInstance(result[1], 2)

\* C3: example2 built by assign(10): the public inputs [x, y, z] are accepted
\* exactly when z is the 10th term t9 of the recurrence seeded with x, y.
C3_AcceptsExactlyT9 ==
    (Verified(2) /\ nrows = Nrows2) =>
        ((result = << >>) <=> (public_input[3] = T9(public_input[1], public_input[2])))

C3_Witness ==
    /\ Verified(2) /\ nrows = Nrows2
    /\ public_input = <<Fp(1), Fp(1), Fp(55)>>
    /\ result = << >>

\* C4: example3 built by assign(5), read row by row (a0, b0, a1, b1, ...),
\* holds t0..t9 of the recurrence seeded with the public inputs x, y, and its
\* check agrees with example1's check for the seeds a = x, b = y.
C4_SameAsExample1 ==
    (Verified(3) /\ nrows = Nrows3) =>
        /\ \A n \in 0 .. 9 :
              layouter.table[<<n % 2, n \div 2>>]
                  = FibTerm(public_input[1], public_input[2], n)
        /\ (result = << >>) <=>
              (Check(1, synthesize1([a |-> public_input[1], b |-> public_input[2]]),
                     public_input) = << >>)

\* C5: the layout does not depend on the witness: the cells, selector rows
\* and copy constraints of the run with values are those of the
\* without_witnesses run, in each of the three examples.
C5_LayoutIndependent ==
    (pass = "witness" /\ pc \in {"synthesized", "verified"}) =>
        Layout(layouter) = shape

C5_Witness ==
    /\ Verified(1)
    /\ circuit.a # circuit.b
    /\ shape.cells = DOMAIN layouter.table
    /\ Cardinality(shape.cells) = 3 * (LastRow1 + 1)
    /\ shape.copies # << >>

\* the add gate of example1 does not hold in row r of the table
GateFails1(T, r) == (T[<<0, r>>] + T[<<1, r>>]) % P # T[<<2, r>>]

GateEntries(res) == {j \in DOMAIN res : IsGate(res[j])}

C7_SelectorRows ==
    (ex = 2 /\ pc = "expose_out" /\ nrows >= 3) =>
        layouter.selectors = 0 .. (nrows - 3)

\* the cells a gate reads at row r
Queried(g, r) ==
    {<<g.polys[j][t][1], r + g.polys[j][t][2]>> :
        j \in DOMAIN g.polys, t \in 1 .. 3}

\* C8: after assign(nrows) of example2 or example3, every row with the
\* selector enabled has all cells its gate queries among the assigned cells.
C8_GatesReadAssigned ==
    (ex \in {2, 3} /\ pc = "expose_out") =>
        \A r \in layouter.selectors :
            \A g \in 1 .. Len(Gates(ex)) :
                Queried(Gates(ex)[g], r) \subseteq DOMAIN layouter.table

\* C9: example1's constraints force the output. Whatever advice values the
\* table holds, public inputs [x, y, z] with z # t9(x, y) are rejected (so an
\* accepted table has z = t9(x, y)); and in every row r >= 1 the a cell shares
\* a copy class with the previous row's b cell and the b cell with the
\* previous row's c cell.
C9_ConstraintsForceOutput ==
    (ex = 1 /\ pass = "witness") =>
        /\ (pc = "synthesized") =>
              \A r \in 1 .. LastRow1 :
                 /\ SameClass(layouter, <<0, r>>, <<1, r - 1>>)
                 /\ SameClass(layouter, <<1, r>>, <<2, r - 1>>)
        /\ (pc = "verified"
              /\ public_input[3] # T9(public_input[1], public_input[2])) =>
              result # << >>

\* a forged table in which every gate holds and every public input equals
\* the cell bound to it, offered for a z that is not t9(x, y)
C9_Witness ==
    /\ Verified(1)
    /\ tampered # {}
    /\ \A r \in layouter.selectors : ~GateFails1(layouter.table, r)
    /\ \A k \in 1 .. 3 : public_input[k] = layouter.table[BoundCell1(k)]
    /\ public_input[3] # T9(public_input[1], public_input[2])
    /\ result # << >>

\* C10: example3 binds each public input: instance row 0 to (col_a, 0),
\* instance row 1 to (col_b, 0) and instance row 2 to (col_b, nrows - 1).
C10_InputsBound ==
    (ex = 3 /\ nrows = Nrows3 /\ pc = "synthesized") =>
        /\ SameClass(layouter, <<InstanceCol, 0>>, <<0, 0>>)
        /\ SameClass(layouter, <<InstanceCol, 1>>, <<1, 0>>)
        /\ SameClass(layouter, <<InstanceCol, 2>>, <<1, nrows - 1>>)

====
